---- MODULE Spec2Model ----
(***************************************************************************)
(* Model of core/config.py: the YAML configuration loader and dumper of    *)
(* Qudi (ordered_load, ordered_dump, load, save) together with the part of *)
(* the file system and of the YAML library the four functions act on.      *)
(*                                                                         *)
(* Python values are records with a kind field k:                          *)
(*   null, bool, int (with numpy width w), float (with width w, value      *)
(*   m * 10^e), str (a text), seq, map (a sequence of <<key, value>>       *)
(*   pairs in insertion order), fset, arr (dtype, shape, data), fn (a      *)
(*   callable), obj (an arbitrary constructed object).                     *)
(* A text is either a token sequence or a numeric lexeme.                  *)
(***************************************************************************)
EXTENDS Integers, Sequences, FiniteSets, TLC

VARIABLES doc, hand, files, dirs, saved, last, handles, written, registry

vars == <<doc, hand, files, dirs, saved, last, handles, written, registry>>

(***************************************************************************)
(* Bounds of the model.                                                    *)
(***************************************************************************)
\* Number of arrays held by the largest generated array document.
MaxArrays == 2
\* Number of external-file write failures injected into one dump call.
MaxFailures == 1

(***************************************************************************)
(* Texts.                                                                  *)
(***************************************************************************)
Toks(t) == [lx |-> "toks", t |-> t]

\* sign ip 0^z [. fp] [e esign ex]; fp is one digit, present when dot.
NumLex(neg, ip, z, dot, fp, exp, esign, ex) ==
    [lx |-> "num", neg |-> neg, ip |-> ip, z |-> z, dot |-> dot, fp |-> fp,
     exp |-> exp, esign |-> esign, ex |-> ex]

IntLex(n) == NumLex(n < 0, IF n < 0 THEN -n ELSE n, 0, FALSE, 0, FALSE, "", 0)

\* base64 text of a byte string holding a compressed archive
B64(blob) == [lx |-> "b64", blob |-> blob]

(***************************************************************************)
(* Python values.                                                          *)
(***************************************************************************)
VNull == [k |-> "null"]
VBool(b) == [k |-> "bool", v |-> b]
VInt(w, n) == [k |-> "int", v |-> n, w |-> w]
VFloat(w, m, e) == [k |-> "float", v |-> [m |-> m, e |-> e], w |-> w]
VStr(t) == [k |-> "str", v |-> t]
Word(w) == VStr(Toks(<<w>>))
VList(items) == [k |-> "seq", v |-> items]
VMap(pairs) == [k |-> "map", v |-> pairs]
VFSet(s) == [k |-> "fset", v |-> s]
VArr(dtype, data) == [k |-> "arr", v |-> data, dtype |-> dtype, shape |-> <<Len(data)>>]
VFn(name) == [k |-> "fn", v |-> name]
VObj(name) == [k |-> "obj", v |-> name]

(***************************************************************************)
(* The legacy array-from-string evaluation of construct_str:               *)
(* eval(value, local).  The text is parsed as a Python expression over     *)
(* numbers, string literals, names, list displays and calls; a text that   *)
(* does not parse raises SyntaxError before anything is evaluated.         *)
(***************************************************************************)
PunctToks == {"(", ")", "[", "]", ","}
NumToks == {"1", "2", "3"}
StrLitToks == {"'os'"}

TokNum(tok) == CASE tok = "1" -> 1 [] tok = "2" -> 2 [] OTHER -> 3

IsNameTok(tok) == tok \notin PunctToks \cup NumToks \cup StrLitToks

ParseFail == [ok |-> FALSE, next |-> 0, ast |-> [n |-> "none"]]

RECURSIVE ParseAtom(_, _), ParseArgs(_, _, _, _), ParseTrailers(_, _, _)

\* a comma separated expression list up to the token close
ParseArgs(t, i, close, acc) ==
    IF i > Len(t) THEN ParseFail
    ELSE IF t[i] = close THEN [ok |-> TRUE, next |-> i + 1, ast |-> [n |-> "items", v |-> acc]]
    ELSE LET a == ParseAtom(t, i) IN
         IF ~a.ok \/ a.next > Len(t) THEN ParseFail
         ELSE IF t[a.next] = "," THEN ParseArgs(t, a.next + 1, close, Append(acc, a.ast))
         ELSE IF t[a.next] = close
              THEN [ok |-> TRUE, next |-> a.next + 1,
                    ast |-> [n |-> "items", v |-> Append(acc, a.ast)]]
         ELSE ParseFail

\* call trailers after a primary: f(...)(...)
ParseTrailers(t, i, ast) ==
    IF i <= Len(t) /\ t[i] = "("
    THEN LET r == ParseArgs(t, i + 1, ")", <<>>) IN
         IF r.ok THEN ParseTrailers(t, r.next, [n |-> "call", f |-> ast, v |-> r.ast.v])
         ELSE ParseFail
    ELSE [ok |-> TRUE, next |-> i, ast |-> ast]

ParseAtom(t, i) ==
    IF i > Len(t) THEN ParseFail
    ELSE IF t[i] \in NumToks THEN ParseTrailers(t, i + 1, [n |-> "num", v |-> TokNum(t[i])])
    ELSE IF t[i] \in StrLitToks THEN ParseTrailers(t, i + 1, [n |-> "str", v |-> t[i]])
    ELSE IF t[i] = "["
         THEN LET r == ParseArgs(t, i + 1, "]", <<>>) IN
              IF r.ok THEN ParseTrailers(t, r.next, [n |-> "list", v |-> r.ast.v])
              ELSE ParseFail
    ELSE IF IsNameTok(t[i]) THEN ParseTrailers(t, i + 1, [n |-> "name", v |-> t[i]])
    ELSE ParseFail

\* compile(value, '<string>', 'eval'): the whole text is one expression
ParseExpr(t) ==
    LET r == ParseAtom(t, 1) IN
    IF r.ok /\ r.next = Len(t) + 1 THEN r ELSE ParseFail

\* the names construct_str puts into the evaluation namespace
DTypes == {"int8", "uint8", "int16", "uint16", "float16", "int32", "uint32",
           "float32", "int64", "uint64", "float64"}

local == [name \in {"array"} \cup DTypes |-> VFn(name)]

\* names of the builtins module of the interpreter
Builtins == {"__import__", "open", "eval"}

\* eval(source, globals): a globals dictionary without the key __builtins__
\* gets a reference to the builtins module inserted under that key, so a
\* name missing from globals is then looked up among the builtins.
EvalGlobals(globals) ==
    [name \in DOMAIN globals \cup Builtins |->
        IF name \in DOMAIN globals THEN globals[name] ELSE VFn(name)]

EvalOk(val, exec) == [err |-> "", val |-> val, exec |-> exec]
EvalErr(e, exec) == [err |-> e, val |-> VNull, exec |-> exec]

AllInts(items) == \A i \in 1..Len(items) : items[i].k = "int"
RawInts(items) == [i \in 1..Len(items) |-> items[i].v]

\* numpy.array(object[, dtype])
NumpyArray(args, exec) ==
    IF Len(args) \notin {1, 2} THEN EvalErr("TypeError", exec)
    ELSE IF Len(args) = 2 /\ ~(args[2].k = "fn" /\ args[2].v \in DTypes)
         THEN EvalErr("TypeError", exec)
    ELSE LET items == IF args[1].k = "seq" THEN args[1].v ELSE <<args[1]>>
             dtype == IF Len(args) = 2 THEN args[2].v
                      ELSE IF AllInts(items) THEN "int64" ELSE "object"
         IN  IF AllInts(items) THEN EvalOk(VArr(dtype, RawInts(items)), exec)
             ELSE IF dtype = "object" THEN EvalOk(VArr(dtype, items), exec)
             ELSE EvalErr("TypeError", exec)

\* numpy.<dtype>([value])
NumpyScalar(w, args, exec) ==
    IF Len(args) = 0 THEN EvalOk(VInt(w, 0), exec)
    ELSE IF Len(args) > 1 THEN EvalErr("TypeError", exec)
    ELSE IF args[1].k = "int" THEN EvalOk(VInt(w, args[1].v), exec)
    ELSE IF args[1].k = "seq" /\ AllInts(args[1].v)
         THEN EvalOk(VArr(w, RawInts(args[1].v)), exec)
    ELSE IF args[1].k = "str" THEN EvalErr("ValueError", exec)
    ELSE EvalErr("TypeError", exec)

\* calling f: every call is recorded in exec
Apply(f, args, exec) ==
    IF f.k # "fn" THEN EvalErr("TypeError", exec)
    ELSE LET ex == exec \cup {f.v} IN
         IF f.v = "array" THEN NumpyArray(args, ex)
         ELSE IF f.v \in DTypes THEN NumpyScalar(f.v, args, ex)
         ELSE EvalOk(VObj(f.v), ex)

RECURSIVE Eval(_, _, _), EvalItems(_, _, _, _, _)

\* the items of a list display or of an argument list, left to right
EvalItems(items, i, acc, g, exec) ==
    IF i > Len(items) THEN EvalOk(VList(acc), exec)
    ELSE LET r == Eval(items[i], g, exec) IN
         IF r.err # "" THEN r
         ELSE EvalItems(items, i + 1, Append(acc, r.val), g, r.exec)

Eval(ast, g, exec) ==
    CASE ast.n = "num" -> EvalOk(VInt("py", ast.v), exec)
      [] ast.n = "str" -> EvalOk(VStr(Toks(<<ast.v>>)), exec)
      [] ast.n = "name" ->
            IF ast.v \in DOMAIN g THEN EvalOk(g[ast.v], exec)
            ELSE EvalErr("NameError", exec)
      [] ast.n = "list" -> EvalItems(ast.v, 1, <<>>, g, exec)
      [] OTHER ->
            LET f == Eval(ast.f, g, exec) IN
            IF f.err # "" THEN f
            ELSE LET a == EvalItems(ast.v, 1, <<>>, g, f.exec) IN
                 IF a.err # "" THEN a ELSE Apply(f.val, a.val.v, a.exec)

\* value.startswith('array(')
StartsWithArray(text) ==
    text.lx = "toks" /\ Len(text.t) >= 2 /\ text.t[1] = "array" /\ text.t[2] = "("

\* The exceptions the legacy evaluation recovers from.
CaughtByConstructStr == {"SyntaxError"}

\* construct_str applied to the text of a string scalar
construct_str(text) ==
    IF StartsWithArray(text)
    THEN LET p == ParseExpr(text.t) IN
         IF ~p.ok
         THEN IF "SyntaxError" \in CaughtByConstructStr THEN EvalOk(VStr(text), {})
              ELSE EvalErr("SyntaxError", {})
         ELSE LET r == Eval(p.ast, EvalGlobals(local), {}) IN
              IF r.err # "" /\ r.err \in CaughtByConstructStr
              THEN EvalOk(VStr(text), r.exec)
              ELSE r
    ELSE EvalOk(VStr(text), {})

(***************************************************************************)
(* Paths: a directory (sequence of components, <<>> for no directory       *)
(* component) and a file name (sequence of tokens, "." separating the      *)
(* extension).                                                             *)
(***************************************************************************)
Path(dir, name) == [dir |-> dir, name |-> name]

\* os.path.dirname, os.path.basename
dirname(p) == p.dir
basename(p) == p.name

\* os.path.splitext(name)[0]: the name up to its last dot, a leading dot kept
RECURSIVE LastDot(_, _)
LastDot(name, i) ==
    IF i <= 1 THEN 0
    ELSE IF name[i] = "." THEN i
    ELSE LastDot(name, i - 1)

splitext0(name) ==
    LET i == LastDot(name, Len(name)) IN
    IF i = 0 THEN name ELSE SubSeq(name, 1, i - 1)

DigitTok(d) ==
    CASE d = 0 -> "0" [] d = 1 -> "1" [] d = 2 -> "2" [] d = 3 -> "3" [] d = 4 -> "4"
      [] d = 5 -> "5" [] d = 6 -> "6" [] d = 7 -> "7" [] d = 8 -> "8" [] OTHER -> "9"

RECURSIVE Digits(_)
Digits(n) == IF n < 10 THEN <<DigitTok(n)>> ELSE Append(Digits(n \div 10), DigitTok(n % 10))

RECURSIVE ZeroPad(_, _)
ZeroPad(ds, width) == IF Len(ds) >= width THEN ds ELSE ZeroPad(<<"0">> \o ds, width)

\* the field width of '{1:06}'
CounterWidth == 6

\* ExternalPath with the counter left out of the name
ExternalPathFixed(streamName, counter) ==
    Path(dirname(streamName),
         splitext0(basename(streamName)) \o <<"-">>
            \o ZeroPad(Digits(0), CounterWidth) \o <<".", "npz">>)

\* '{0}-{1:06}.npz'.format(os.path.join(configdir, filename), counter)
ExternalPath(streamName, counter) ==
    Path(dirname(streamName),
         splitext0(basename(streamName)) \o <<"-">>
            \o ZeroPad(Digits(counter), CounterWidth) \o <<".", "npz">>)

\* the directories os.makedirs(dir) has to create, outermost first
Prefixes(dir) == {SubSeq(dir, 1, i) : i \in 1..Len(dir)}

(***************************************************************************)
(* Scalar texts: resolution and conversion.                                *)
(***************************************************************************)
RECURSIVE Pow10(_)
Pow10(n) == IF n = 0 THEN 1 ELSE 10 * Pow10(n - 1)

\* Implicit resolvers this module adds to the resolver when it is imported.
ModuleImplicitResolvers == {}

\* float of the YAML 1.2 grammar: digits . [digits] [e [sign] digits], or
\* digits e [sign] digits; of the YAML 1.1 grammar: the first form only.
BaseFloat(x, version) ==
    IF version = "1.1" THEN x.dot ELSE x.dot \/ x.exp

\* the pattern of the scientific notation fix
SciFloat(x) == x.dot \/ x.exp

\* the tag the resolver gives a plain scalar
Resolve(text, version) ==
    IF text.lx = "toks"
    THEN IF text.t \in {<<>>, <<"null">>, <<"~">>} THEN "null"
         ELSE IF text.t \in {<<"true">>, <<"false">>} THEN "bool"
         ELSE "str"
    ELSE IF text.lx = "num"
    THEN IF ~text.dot /\ ~text.exp THEN "int"
         ELSE IF BaseFloat(text, version) THEN "float"
         ELSE IF "float" \in ModuleImplicitResolvers /\ SciFloat(text) THEN "float"
         ELSE "str"
    ELSE "str"

\* version the dumper writes for (none given: the library default)
use_version == ""

\* the version a document without %YAML directive is read as
DefaultVersion == "1.2"

\* repr(float): m * 10^e with m of one or two digits, m not a multiple of
\* 10 and e >= -1; exponent notation from 1e16 on.
FloatRepr(v) ==
    LET nd == IF v.m < 10 THEN 1 ELSE 2
        X == nd - 1 + v.e
    IN  IF X >= 16
        THEN IF nd = 1 THEN NumLex(FALSE, v.m, 0, FALSE, 0, TRUE, "+", X)
             ELSE NumLex(FALSE, v.m \div 10, 0, TRUE, v.m % 10, TRUE, "+", X)
        ELSE IF v.e >= 0 THEN NumLex(FALSE, v.m, v.e, TRUE, 0, FALSE, "", 0)
        ELSE NumLex(FALSE, v.m \div 10, 0, TRUE, v.m % 10, FALSE, "", 0)

\* the float representer of the library: under YAML 1.1 a mantissa without
\* dot gets ".0"
FloatText(v) ==
    LET x == FloatRepr(v) IN
    IF use_version = "1.1" /\ ~x.dot /\ x.exp
    THEN [x EXCEPT !.dot = TRUE, !.fp = 0]
    ELSE x

RECURSIVE Normal(_, _)
Normal(m, e) ==
    IF m # 0 /\ m % 10 = 0 THEN Normal(m \div 10, e + 1) ELSE [m |-> m, e |-> e]

\* float(text)
LexFloat(x) ==
    LET ex == IF ~x.exp THEN 0 ELSE IF x.esign = "-" THEN 0 - x.ex ELSE x.ex IN
    IF x.dot /\ x.fp # 0
    THEN Normal(x.ip * Pow10(x.z) * 10 + x.fp, ex - 1)
    ELSE Normal(x.ip, x.z + ex)

\* int(text)
LexInt(x) == IF x.neg THEN 0 - x.ip * Pow10(x.z) ELSE x.ip * Pow10(x.z)

\* a path written as a string
PathText(p) == [lx |-> "path", p |-> p]

(***************************************************************************)
(* YAML nodes and texts.                                                   *)
(***************************************************************************)
Scalar(tag, text) == [kind |-> "scalar", tag |-> tag, text |-> text]
SeqNode(tag, items) == [kind |-> "seq", tag |-> tag, items |-> items]
MapNode(tag, pairs) == [kind |-> "map", tag |-> tag, pairs |-> pairs]

\* a stream without a document
NoDocument == [kind |-> "none"]

YamlText(version, root) == [type |-> "yaml", version |-> version, root |-> root]

\* numpy.savez_compressed(f, array=data): an archive with the one entry 'array'
Npz(data) == [type |-> "npz", entry |-> "array", array |-> data]

\* the streams ordered_dump is given
NoStream == [kind |-> "none"]
MemoryStream == [kind |-> "memory"]
FileStream(p) == [kind |-> "file", name |-> p]

(***************************************************************************)
(* ordered_dump: the representers.  The dump state st holds the dumper's   *)
(* external_ndarray_counter (ctr), the files written so far (files) and    *)
(* the number of arrays met so far (seen); fail is the set of arrays, by   *)
(* position in the traversal, whose external file cannot be written.       *)
(***************************************************************************)
\* class attribute OrderedDumper.external_ndarray_counter
external_ndarray_counter == 0

\* the advance of the counter after an array is externalized
CounterStep == 1

\* the elements of a set in the order the mapping representer writes them
RECURSIVE SetToSeq(_)
SetToSeq(S) ==
    IF S = {} THEN <<>>
    ELSE LET x == CHOOSE y \in S : TRUE IN <<x>> \o SetToSeq(S \ {x})

represent_int(data) == Scalar("int", IntLex(data.v))

represent_float(data) == Scalar("float", FloatText(data.v))

\* the except branch of represent_ndarray: the archive as a binary scalar
represent_inline(data) == Scalar("!ndarray", B64(Npz(data)))

\* what the try block of represent_ndarray raises: stream.name of a stream
\* without name, or numpy.savez_compressed failing to write
TryError(stream, fail, seen) ==
    IF stream.kind # "file" THEN "AttributeError"
    ELSE IF seen \in fail THEN "OSError"
    ELSE ""

\* an except clause for the missing stream name alone
catches_attribute_error_only(e) == e = "AttributeError"

\* the bare except clause of represent_ndarray
represent_ndarray_catches(e) == TRUE

represent_ndarray(data, stream, fail, st) ==
    LET seen == st.seen + 1
        e == TryError(stream, fail, seen)
    IN  IF e = ""
        THEN LET newpath == ExternalPath(stream.name, st.ctr) IN
             [node |-> Scalar("!extndarray", PathText(newpath)),
              st |-> [st EXCEPT !.ctr = st.ctr + CounterStep,
                                !.files = (newpath :> Npz(data)) @@ st.files,
                                !.seen = seen]]
        ELSE IF represent_ndarray_catches(e)
        THEN [node |-> represent_inline(data), st |-> [st EXCEPT !.seen = seen]]
        ELSE [node |-> represent_inline(data),
              st |-> [st EXCEPT !.seen = seen,
                                !.err = IF st.err = "" THEN e ELSE st.err]]

RECURSIVE represent_data(_, _, _, _), RepresentItems(_, _, _, _, _, _),
          RepresentPairs(_, _, _, _, _, _)

RepresentItems(items, i, acc, stream, fail, st) ==
    IF i > Len(items) THEN [node |-> acc, st |-> st]
    ELSE LET r == represent_data(items[i], stream, fail, st) IN
         RepresentItems(items, i + 1, Append(acc, r.node), stream, fail, r.st)

RepresentPairs(pairs, i, acc, stream, fail, st) ==
    IF i > Len(pairs) THEN [node |-> acc, st |-> st]
    ELSE LET rk == represent_data(pairs[i][1], stream, fail, st)
             rv == represent_data(pairs[i][2], stream, fail, rk.st)
         IN  RepresentPairs(pairs, i + 1, Append(acc, <<rk.node, rv.node>>),
                            stream, fail, rv.st)

\* represent_ordereddict writing the items last to first
represent_ordereddict_reversed(data, stream, fail, st) ==
    LET n == Len(data.v)
        r == RepresentPairs([i \in 1..n |-> data.v[n + 1 - i]], 1, <<>>, stream, fail, st)
    IN  [node |-> MapNode("map", r.node), st |-> r.st]

\* represent_ordereddict: the items in their stored order
represent_ordereddict(data, stream, fail, st) ==
    LET r == RepresentPairs(data.v, 1, <<>>, stream, fail, st) IN
    [node |-> MapNode("map", r.node), st |-> r.st]

\* represent_frozenset: a set node (the elements as keys of null values)
\* with the tag replaced
represent_frozenset(data, stream, fail, st) ==
    LET elems == SetToSeq(data.v)
        r == RepresentPairs([i \in 1..Len(elems) |-> <<elems[i], VNull>>], 1, <<>>,
                            stream, fail, st)
    IN  [node |-> MapNode("!frozenset", r.node), st |-> r.st]

represent_data(v, stream, fail, st) ==
    CASE st.err # "" -> [node |-> Scalar("null", Toks(<<"null">>)), st |-> st]
      [] v.k = "obj" ->
            [node |-> Scalar("null", Toks(<<"null">>)),
             st |-> [st EXCEPT !.err = "RepresenterError"]]
      [] v.k = "null" -> [node |-> Scalar("null", Toks(<<"null">>)), st |-> st]
      [] v.k = "bool" ->
            [node |-> Scalar("bool", Toks(<<IF v.v THEN "true" ELSE "false">>)), st |-> st]
      [] v.k = "int" -> [node |-> represent_int(v), st |-> st]
      [] v.k = "float" -> [node |-> represent_float(v), st |-> st]
      [] v.k = "str" -> [node |-> Scalar("str", v.v), st |-> st]
      [] v.k = "seq" ->
            LET r == RepresentItems(v.v, 1, <<>>, stream, fail, st) IN
            [node |-> SeqNode("seq", r.node), st |-> r.st]
      [] v.k = "map" -> represent_ordereddict(v, stream, fail, st)
      [] v.k = "fset" -> represent_frozenset(v, stream, fail, st)
      [] OTHER -> represent_ndarray(v, stream, fail, st)

\* the emitter: a scalar is written plain and without tag when the resolver
\* gives the plain text its tag, a string otherwise quoted, anything else
\* with its tag
RECURSIVE Emit(_)
Emit(n) ==
    CASE n.kind = "scalar" ->
            IF n.tag \notin {"!ndarray", "!extndarray"}
               /\ Resolve(n.text, DefaultVersion) = n.tag
            THEN [kind |-> "scalar", tag |-> "", style |-> "plain", text |-> n.text]
            ELSE IF n.tag = "str"
            THEN [kind |-> "scalar", tag |-> "", style |-> "quoted", text |-> n.text]
            ELSE [kind |-> "scalar", tag |-> n.tag, style |-> "quoted", text |-> n.text]
      [] n.kind = "seq" ->
            [kind |-> "seq", tag |-> "", items |-> [i \in 1..Len(n.items) |-> Emit(n.items[i])]]
      [] OTHER ->
            [kind |-> "map", tag |-> IF n.tag = "map" THEN "" ELSE n.tag,
             pairs |-> [i \in 1..Len(n.pairs) |->
                          <<Emit(n.pairs[i][1]), Emit(n.pairs[i][2])>>]]

\* ordered_dump(data, stream): the text written and the files after the call
ordered_dump(data, stream, fail, fs) ==
    LET r == represent_data(data, stream, fail,
                            [ctr |-> external_ndarray_counter, files |-> fs, seen |-> 0,
                             err |-> ""])
    IN  [err |-> r.st.err, text |-> YamlText(use_version, Emit(r.node)),
         files |-> r.st.files, ctr |-> r.st.ctr, node |-> r.node]

(***************************************************************************)
(* ordered_load: the composer and the constructors.  A construction        *)
(* returns err ("" when it succeeds), the value, and exec, the set of      *)
(* callables it has called.                                                *)
(***************************************************************************)
\* the tag of a node as the composer sees it
NodeTag(n, version) ==
    IF n.tag # "" THEN n.tag
    ELSE IF n.kind = "seq" THEN "seq"
    ELSE IF n.kind = "map" THEN "map"
    ELSE IF n.style = "plain" THEN Resolve(n.text, version)
    ELSE "str"

\* a tag that makes the full Loader call a Python callable
PythonApplyTag == "!!python/object/apply:os.system"

Hashable(v) == v.k \notin {"seq", "map", "arr"}

\* OrderedDict(pairs): a repeated key keeps its first place and takes the
\* last value
RECURSIVE OrderedDictOf(_, _, _)
OrderedDictOf(pairs, i, acc) ==
    IF i > Len(pairs) THEN acc
    ELSE LET same == {j \in 1..Len(acc) : acc[j][1] = pairs[i][1]} IN
         IF same = {} THEN OrderedDictOf(pairs, i + 1, Append(acc, pairs[i]))
         ELSE OrderedDictOf(pairs, i + 1,
                  [j \in 1..Len(acc) |-> IF j \in same THEN pairs[i] ELSE acc[j]])

\* construct_ndarray: the binary scalar decoded and read as an archive
construct_ndarray(n) ==
    IF n.kind # "scalar" \/ n.text.lx # "b64" THEN EvalErr("ConstructorError", {})
    ELSE IF n.text.blob.type # "npz" \/ n.text.blob.entry # "array"
         THEN EvalErr("ValueError", {})
    ELSE EvalOk(n.text.blob.array, {})

\* construct_external_ndarray: the scalar is the name of the archive file
construct_external_ndarray(n, fs) ==
    IF n.kind # "scalar" THEN EvalErr("ConstructorError", {})
    ELSE IF n.text.lx # "path" \/ n.text.p \notin DOMAIN fs
         THEN EvalErr("FileNotFoundError", {})
    ELSE IF fs[n.text.p].type # "npz" THEN EvalErr("ValueError", {})
    ELSE EvalOk(fs[n.text.p].array, {})

RECURSIVE construct_object(_, _, _, _, _), ConstructItems(_, _, _, _, _, _, _),
          ConstructPairs(_, _, _, _, _, _, _)

ConstructItems(items, i, acc, base, version, fs, exec) ==
    IF i > Len(items) THEN EvalOk(VList(acc), exec)
    ELSE LET r == construct_object(items[i], base, version, fs, exec) IN
         IF r.err # "" THEN r
         ELSE ConstructItems(items, i + 1, Append(acc, r.val), base, version, fs, r.exec)

\* loader.construct_pairs(node)
ConstructPairs(pairs, i, acc, base, version, fs, exec) ==
    IF i > Len(pairs) THEN EvalOk(VList(acc), exec)
    ELSE LET rk == construct_object(pairs[i][1], base, version, fs, exec) IN
         IF rk.err # "" THEN rk
         ELSE LET rv == construct_object(pairs[i][2], base, version, fs, rk.exec) IN
              IF rv.err # "" THEN rv
              ELSE ConstructPairs(pairs, i + 1, Append(acc, <<rk.val, rv.val>>),
                                  base, version, fs, rv.exec)

\* construct_mapping: OrderedDict(loader.construct_pairs(node))
construct_mapping(n, base, version, fs, exec) ==
    LET r == ConstructPairs(n.pairs, 1, <<>>, base, version, fs, exec) IN
    IF r.err # "" THEN r
    ELSE IF \E i \in 1..Len(r.val.v) : ~Hashable(r.val.v[i][1])
         THEN EvalErr("TypeError", r.exec)
    ELSE EvalOk(VMap(OrderedDictOf(r.val.v, 1, <<>>)), r.exec)

\* construct_frozenset: the keys of the set node
construct_frozenset(n, base, version, fs, exec) ==
    IF n.kind # "map" THEN EvalErr("ConstructorError", exec)
    ELSE LET r == ConstructPairs(n.pairs, 1, <<>>, base, version, fs, exec) IN
         IF r.err # "" THEN r
         ELSE IF \E i \in 1..Len(r.val.v) : ~Hashable(r.val.v[i][1])
              THEN EvalErr("TypeError", r.exec)
         ELSE EvalOk(VFSet({r.val.v[i][1] : i \in 1..Len(r.val.v)}), r.exec)

With(r, exec) == [r EXCEPT !.exec = r.exec \cup exec]

construct_object(n, base, version, fs, exec) ==
    LET tag == NodeTag(n, version) IN
    CASE tag = "map" /\ n.kind = "map" -> construct_mapping(n, base, version, fs, exec)
      [] tag = "seq" /\ n.kind = "seq" ->
            ConstructItems(n.items, 1, <<>>, base, version, fs, exec)
      [] tag = "!frozenset" -> construct_frozenset(n, base, version, fs, exec)
      [] tag = "!ndarray" -> With(construct_ndarray(n), exec)
      [] tag = "!extndarray" -> With(construct_external_ndarray(n, fs), exec)
      [] tag = "str" /\ n.kind = "scalar" -> With(construct_str(n.text), exec)
      [] tag = "null" /\ n.kind = "scalar" -> EvalOk(VNull, exec)
      [] tag = "bool" /\ n.kind = "scalar" -> EvalOk(VBool(n.text.t = <<"true">>), exec)
      [] tag = "int" /\ n.kind = "scalar" -> EvalOk(VInt("py", LexInt(n.text)), exec)
      [] tag = "float" /\ n.kind = "scalar" ->
            EvalOk([k |-> "float", v |-> LexFloat(n.text), w |-> "py"], exec)
      [] tag = PythonApplyTag /\ base = "Loader" ->
            EvalOk(VObj("os.system"), exec \cup {"os.system"})
      [] OTHER -> EvalErr("ConstructorError", exec)

\* the default of ordered_load's parameter loader_base
DefaultLoaderBase == "Loader"

\* yaml.load(stream, OrderedLoader): None for a stream without document
yaml_load(text, base, fs) ==
    IF text.root.kind = "malformed" THEN EvalErr("ScannerError", {})
    ELSE IF text.root.kind = "none" THEN EvalOk(VNull, {})
    ELSE construct_object(text.root, base,
                          IF text.version = "" THEN DefaultVersion ELSE text.version,
                          fs, {})

\* ordered_load returning what yaml.load gave
config_unchanged(config) == config

\* the return statement of ordered_load
config_or_empty(config) == IF config = VNull THEN VMap(<<>>) ELSE config

\* ordered_load(stream, loader_base)
ordered_load(text, base, fs) ==
    LET r == yaml_load(text, base, fs) IN
    IF r.err = "" THEN EvalOk(config_or_empty(r.val), r.exec) ELSE r

\* load with ignore_missing taken as set
load_always_ignoring(file_path, ignore_missing, fs) ==
    IF file_path \in DOMAIN fs
    THEN ordered_load(fs[file_path], "SafeLoader", fs) @@ [msg |-> <<>>]
    ELSE EvalOk(VMap(<<>>), {}) @@ [msg |-> <<>>]

\* load(file_path, ignore_missing): msg is the path named in the error
load(file_path, ignore_missing, fs) ==
    IF file_path \in DOMAIN fs
    THEN ordered_load(fs[file_path], "SafeLoader", fs) @@ [msg |-> <<>>]
    ELSE IF ignore_missing THEN EvalOk(VMap(<<>>), {}) @@ [msg |-> <<>>]
    ELSE EvalErr("FileNotFoundError", {}) @@ [msg |-> <<file_path>>]

(***************************************************************************)
(* The documents and texts of a run.                                       *)
(***************************************************************************)
KeyTok(i) == CASE i = 1 -> "a1" [] i = 2 -> "a2" [] i = 3 -> "a3" [] OTHER -> "a4"

\* the i-th array: i elements, the dtype alternating
ArrayOf(i) == VArr(IF i % 2 = 1 THEN "int32" ELSE "float64", [j \in 1..i |-> j + i])

\* a document of n arrays
ArrDoc(n) == VMap([i \in 1..n |-> <<Word(KeyTok(i)), ArrayOf(i)>>])

ScalarDoc ==
    VMap(<< <<Word("n"), VNull>>, <<Word("b"), VBool(TRUE)>>,
            <<Word("i"), VInt("int32", 7)>>, <<Word("j"), VInt("py", 0 - 3)>>,
            <<Word("f"), VFloat("py", 25, 0 - 1)>>, <<Word("g"), VFloat("float32", 1, 16)>>,
            <<Word("h"), VFloat("py", 15, 16)>>, <<Word("c"), VFloat("py", 1, 2)>>,
            <<Word("s"), Word("hello")>>, <<Word("e"), VStr(Toks(<<>>))>>,
            <<Word("t"), Word("null")>>, <<Word("u"), Word("true")>>,
            <<Word("v"), VStr(NumLex(FALSE, 1, 0, FALSE, 0, TRUE, "", 10))>>,
            <<Word("w"), VStr(IntLex(7))>> >>)

NestedDoc ==
    VMap(<< <<Word("z"), VMap(<< <<Word("y"), VInt("uint8", 1)>>,
                                 <<Word("x"), VList(<<VInt("py", 1), Word("a"),
                                                      VList(<<VBool(FALSE)>>)>>)>> >>)>>,
            <<Word("a"), VFSet({Word("p"), Word("q")})>>,
            <<Word("m"), VFSet({})>>,
            <<Word("l"), VList(<<>>)>>,
            <<Word("k"), ArrayOf(1)>> >>)

\* strings that begin with 'array('
LegacyOk == <<"array", "(", "[", "1", ",", "2", ",", "3", "]", ")">>
LegacyDtype == <<"array", "(", "[", "1", "]", ",", "int8", ")">>
LegacySyntax == <<"array", "(", "[", "1", ",", "2">>
LegacyName == <<"array", "(", "foo", ")">>
LegacyArgs == <<"array", "(", ")">>
LegacyImport == <<"array", "(", "__import__", "(", "'os'", ")", ")">>

LegacyStrings == {LegacyOk, LegacyDtype, LegacySyntax, LegacyName, LegacyArgs, LegacyImport}

StrDoc(t) == VMap(<< <<Word("s"), VStr(Toks(t))>> >>)

Docs == {ArrDoc(n) : n \in 0..MaxArrays} \cup {ScalarDoc, NestedDoc}
            \cup {StrDoc(t) : t \in LegacyStrings}

\* texts written by hand
PlainNode(text) == [kind |-> "scalar", tag |-> "", style |-> "plain", text |-> text]
TaggedNode(tag, text) == [kind |-> "scalar", tag |-> tag, style |-> "plain", text |-> text]
OneKey(node) == [kind |-> "map", tag |-> "", pairs |-> << <<PlainNode(Toks(<<"x">>)), node>> >>]

\* 1e10
SciLex == NumLex(FALSE, 1, 0, FALSE, 0, TRUE, "", 10)

EmptyText == YamlText("", NoDocument)
SciText(version) == YamlText(version, OneKey(PlainNode(SciLex)))
PythonText == YamlText("", OneKey(TaggedNode(PythonApplyTag, Toks(<<"x">>))))
UnknownTagText == YamlText("", OneKey(TaggedNode("!foo", Toks(<<"x">>))))
MalformedText == YamlText("", [kind |-> "malformed"])
NullText == YamlText("", PlainNode(Toks(<<"null">>)))

HandTexts == {EmptyText, SciText(""), SciText("1.1"), SciText("1.2"), PythonText,
              UnknownTagText, MalformedText, NullText}

P1 == Path(<<>>, <<"cfg", ".", "yaml">>)
P2 == Path(<<"d", "e">>, <<"cfg", ".", "yaml">>)
Paths == {P1, P2}

\* a second document file in the directory of P2, with another extension
P3 == Path(<<"d", "e">>, <<"cfg", ".", "json">>)
FilePaths == {P2, P3}

\* documents of one array each, the arrays different
FirstDoc == VMap(<< <<Word("a1"), ArrayOf(1)>> >>)
OtherDoc == VMap(<< <<Word("a1"), ArrayOf(2)>> >>)

\* a document with an array and a value no representer is registered for
UnsupportedDoc == VMap(<< <<Word("a1"), ArrayOf(1)>>, <<Word("k"), VObj("object")>> >>)

FileDocs == {FirstDoc, OtherDoc, UnsupportedDoc}

\* hand-written texts the safe loader fails on
FileTexts == {MalformedText, PythonText}

RECURSIVE CountArrays(_), CountArraysIn(_, _)
CountArraysIn(items, i) ==
    IF i > Len(items) THEN 0 ELSE CountArrays(items[i]) + CountArraysIn(items, i + 1)
CountArrays(v) ==
    CASE v.k = "arr" -> 1
      [] v.k = "seq" -> CountArraysIn(v.v, 1)
      [] v.k = "map" -> CountArraysIn([i \in 1..Len(v.v) |-> v.v[i][2]], 1)
      [] OTHER -> 0

\* the sets of arrays whose external file cannot be written in one call
FailSets(d) == {f \in SUBSET (1..CountArrays(d)) : Cardinality(f) <= MaxFailures}

(***************************************************************************)
(* File handles.  A handle is the path and the mode it was opened with;    *)
(* load and save open the document file in a with statement.               *)
(***************************************************************************)
Handle(file_path, mode) == [path |-> file_path, mode |-> mode]

\* a handle closed by hand after the body, which a raising body skips
close_on_return(hs, h, err) == IF err = "" THEN hs \ {h} ELSE hs

\* the end of the with statement: the handle is closed however the body ends
with_exit(hs, h, err) == hs \ {h}

\* with open(file_path, mode) as f: a body ending with err
with_open(hs, file_path, mode, err) ==
    LET h == Handle(file_path, mode) IN with_exit(hs \cup {h}, h, err)

(***************************************************************************)
(* The loader and dumper classes.  A class is its base class and, when it  *)
(* holds one of its own (own), its table of bindings: the constructors of  *)
(* a loader by tag, the representers of a dumper by type.  A class without *)
(* table of its own finds the table of its base class.                     *)
(***************************************************************************)
SafeTags == {"map", "seq", "str", "int", "float", "bool", "null"}
SafeTypes == {"dict", "list", "str", "int", "float", "bool", "NoneType"}

LibraryClass(keys, fn) == [base |-> "", own |-> TRUE, table |-> [key \in keys |-> fn]]

\* the classes of the library as they are after import
BaseClasses ==
    ("SafeLoader" :> LibraryClass(SafeTags, "SafeConstructor"))
    @@ ("Loader" :> LibraryClass(SafeTags \cup {PythonApplyTag}, "Constructor"))
    @@ ("SafeDumper" :> LibraryClass(SafeTypes, "SafeRepresenter"))
    @@ ("Dumper" :> LibraryClass(SafeTypes \cup {"object"}, "Representer"))

\* class name(base): pass
subclass(classes, name, base) ==
    (name :> [base |-> base, own |-> FALSE, table |-> <<>>]) @@ classes

\* the class whose table a lookup on class cls finds
RECURSIVE TableOwner(_, _)
TableOwner(classes, cls) ==
    IF classes[cls].own THEN cls ELSE TableOwner(classes, classes[cls].base)

TableOf(classes, cls) == classes[TableOwner(classes, cls)].table

\* a registration that writes into the table the lookup finds
add_constructor_shared(classes, cls, tag, fn) ==
    LET o == TableOwner(classes, cls) IN
    [classes EXCEPT ![o] = [@ EXCEPT !.table = (tag :> fn) @@ @]]

\* cls.add_constructor(tag, fn): a class without table of its own first
\* takes a copy of the table it finds, then the binding is written
add_constructor(classes, cls, tag, fn) ==
    LET t == TableOf(classes, cls) IN
    [classes EXCEPT ![cls] = [@ EXCEPT !.own = TRUE, !.table = (tag :> fn) @@ t]]

\* cls.add_representer(type, fn): the same, on the table of representers
add_representer(classes, cls, type, fn) == add_constructor(classes, cls, type, fn)

\* the constructors ordered_load registers, in order
Constructors ==
    << <<"map", "construct_mapping">>, <<"!ndarray", "construct_ndarray">>,
       <<"!extndarray", "construct_external_ndarray">>,
       <<"!frozenset", "construct_frozenset">>, <<"str", "construct_str">> >>

\* the representers ordered_dump registers, in order
Representers ==
    << <<"OrderedDict", "represent_ordereddict">>,
       <<"uint8", "represent_int">>, <<"uint16", "represent_int">>,
       <<"uint32", "represent_int">>, <<"uint64", "represent_int">>,
       <<"int8", "represent_int">>, <<"int16", "represent_int">>,
       <<"int32", "represent_int">>, <<"int64", "represent_int">>,
       <<"float16", "represent_float">>, <<"float32", "represent_float">>,
       <<"float64", "represent_float">>,
       <<"ndarray", "represent_ndarray">>, <<"frozenset", "represent_frozenset">> >>

RECURSIVE AddConstructors(_, _, _), AddRepresenters(_, _, _)
AddConstructors(classes, cls, i) ==
    IF i > Len(Constructors) THEN classes
    ELSE AddConstructors(add_constructor(classes, cls, Constructors[i][1],
                                         Constructors[i][2]), cls, i + 1)
AddRepresenters(classes, cls, i) ==
    IF i > Len(Representers) THEN classes
    ELSE AddRepresenters(add_representer(classes, cls, Representers[i][1],
                                         Representers[i][2]), cls, i + 1)

\* the classes when ordered_load(stream, loader_base) calls yaml.load
OrderedLoader(classes, loader_base) ==
    AddConstructors(subclass(classes, "OrderedLoader", loader_base), "OrderedLoader", 1)

\* the classes when ordered_dump(data, stream, dumper_base) calls yaml.dump
OrderedDumper(classes, dumper_base) ==
    AddRepresenters(subclass(classes, "OrderedDumper", dumper_base), "OrderedDumper", 1)

\* the classes that outlive a call: the class made inside it is local
AfterCall(classes) == [c \in DOMAIN BaseClasses |-> classes[c]]

DefaultDumperBase == "Dumper"

(***************************************************************************)
(* The state: doc and hand are the document and the hand-written text of   *)
(* the run, files and dirs the file system,                                *)
(* saved the paths whose file was last written by save, last the record of *)
(* the last call, handles the file handles that are open, written the      *)
(* document each path was last saved with, registry the classes of the     *)
(* YAML library.                                                           *)
(***************************************************************************)
NoCall ==
    [op |-> "none", path |-> P1, ignore |-> FALSE, stream |-> "none", fail |-> {},
     err |-> "", val |-> VNull, exec |-> {}, msg |-> <<>>, created |-> {},
     dirExisted |-> FALSE, existed |-> FALSE, fromSave |-> FALSE, fromDump |-> FALSE,
     dumped |-> FALSE, node |-> NoDocument, ctr |-> 0, fresh |-> FALSE,
     again |-> FALSE, fsSame |-> TRUE, bound |-> <<>>]

Called(op, path) ==
    [NoCall EXCEPT !.op = op, !.path = path]

Init ==
    /\ \E d \in Docs, h \in HandTexts :
          /\ d = ArrDoc(0) \/ h = EmptyText
          /\ doc = d
          /\ hand = h
    /\ files = <<>>
    /\ dirs \in {{}, {<<"d">>}}
    /\ saved = {}
    /\ last = NoCall
    /\ handles = {}
    /\ written = <<>>
    /\ registry = BaseClasses

\* os.path.exists(file_dir) for a directory path
exists(file_dir, ds) == file_dir # <<>> /\ file_dir \in ds

\* os.makedirs(file_dir): '' is no directory that can be made
makedirs(file_dir, ds) ==
    IF file_dir = <<>> THEN [err |-> "FileNotFoundError", dirs |-> ds]
    ELSE [err |-> "", dirs |-> ds \cup Prefixes(file_dir)]

\* open(file_path, 'w'): the directory of the file has to be there
open_w(file_path, ds) ==
    IF file_path.dir = <<>> \/ file_path.dir \in ds THEN "" ELSE "FileNotFoundError"

\* save(file_path, data)
Save(p, fail) ==
    LET file_dir == dirname(p)
        md == IF ~exists(file_dir, dirs) THEN makedirs(file_dir, dirs)
              ELSE [err |-> "", dirs |-> dirs]
        opened == IF md.err # "" THEN md.err ELSE open_w(p, md.dirs)
        d == ordered_dump(doc, FileStream(p), fail, (p :> EmptyText) @@ files)
        classes == OrderedDumper(registry, "SafeDumper")
    IN  /\ dirs' = md.dirs
        /\ files' = IF opened # "" THEN files
                    ELSE IF d.err # "" THEN d.files
                    ELSE (p :> d.text) @@ d.files
        /\ handles' = IF opened # "" THEN handles ELSE with_open(handles, p, "w", d.err)
        /\ written' = IF opened = "" /\ d.err = "" THEN (p :> doc) @@ written ELSE written
        /\ registry' = IF opened # "" THEN registry ELSE AfterCall(classes)
        /\ saved' = IF opened # "" THEN saved
                    ELSE IF d.err # "" THEN saved \ {p}
                    ELSE saved \cup {p}
        /\ last' = [Called("save", p) EXCEPT
                        !.fail = fail, !.stream = "file", !.again = (saved # {}),
                        !.err = IF opened # "" THEN opened ELSE d.err,
                        !.created = md.dirs \ dirs,
                        !.dirExisted = exists(file_dir, dirs),
                        !.dumped = (opened = ""),
                        !.node = IF opened = "" THEN d.node ELSE NoDocument,
                        !.ctr = IF opened = "" THEN d.ctr ELSE 0,
                        !.fsSame = (files' = files /\ dirs' = dirs),
                        !.bound = IF opened = "" THEN TableOf(classes, "OrderedDumper")
                                  ELSE <<>>]
        /\ UNCHANGED <<doc, hand>>

\* load(file_path, ignore_missing)
Load(p, ignore_missing) ==
    LET r == load(p, ignore_missing, files)
        isfile == p \in DOMAIN files
        classes == OrderedLoader(registry, "SafeLoader")
    IN
    /\ UNCHANGED <<doc, hand, files, dirs, saved, written>>
    /\ handles' = IF isfile THEN with_open(handles, p, "r", r.err) ELSE handles
    /\ registry' = IF isfile THEN AfterCall(classes) ELSE registry
    /\ last' = [Called("load", p) EXCEPT
                    !.bound = IF isfile THEN TableOf(classes, "OrderedLoader") ELSE <<>>,
                    !.ignore = ignore_missing, !.err = r.err, !.val = r.val,
                    !.exec = r.exec, !.msg = r.msg, !.existed = (p \in DOMAIN files),
                    !.fromSave = (p \in saved),
                    !.fsSame = (files' = files /\ dirs' = dirs),
                    !.fresh = (last.op = "save" /\ last.path = p /\ last.err = "")]

\* the text ordered_dump gives for the document of the run on a stream
\* without name
DumpedText(stream) == ordered_dump(doc, stream, {}, files).text

\* ordered_dump(data, stream) with no stream or an in-memory stream
DumpStream(stream) ==
    LET d == ordered_dump(doc, stream, {}, files)
        classes == OrderedDumper(registry, DefaultDumperBase)
    IN
    /\ files' = d.files
    /\ registry' = AfterCall(classes)
    /\ last' = [Called("dump", P1) EXCEPT
                    !.bound = TableOf(classes, "OrderedDumper"),
                    !.stream = stream.kind, !.err = d.err, !.dumped = TRUE,
                    !.node = d.node, !.ctr = d.ctr, !.fsSame = (files' = files)]
    /\ UNCHANGED <<doc, hand, dirs, saved, handles, written>>

\* ordered_load(stream) with its default loader, on the hand-written text
\* or on a text ordered_dump has given
LoadStream(src) ==
    LET text == IF src = "hand" THEN hand
                ELSE IF src = "memory" THEN DumpedText(MemoryStream)
                ELSE DumpedText(NoStream)
        r == ordered_load(text, DefaultLoaderBase, files)
        classes == OrderedLoader(registry, DefaultLoaderBase)
    IN  /\ registry' = AfterCall(classes)
        /\ last' = [Called("loadstream", P1) EXCEPT
                        !.bound = TableOf(classes, "OrderedLoader"),
                        !.stream = src, !.err = r.err, !.val = r.val, !.exec = r.exec,
                        !.fromDump = (src # "hand")]
        /\ UNCHANGED <<doc, hand, files, dirs, saved, handles, written>>

\* the user writes the text by hand into a file
EditFile(p) ==
    /\ open_w(p, dirs) = ""
    /\ files' = (p :> hand) @@ files
    /\ saved' = saved \ {p}
    /\ last' = Called("edit", p)
    /\ UNCHANGED <<doc, hand, dirs, handles, written, registry>>

Next ==
    \/ \E p \in Paths, fail \in FailSets(doc) : Save(p, fail)
    \/ \E p \in Paths, ignore_missing \in BOOLEAN : Load(p, ignore_missing)
    \/ \E stream \in {NoStream, MemoryStream} : DumpStream(stream)
    \/ \E src \in {"hand", "memory", "none"} : LoadStream(src)
    \/ \E p \in Paths : EditFile(p)

Spec == Init /\ [][Next]_vars

(***************************************************************************)
(* The file entry points alone, load and save, on two document files of    *)
(* one directory and with a document that changes between the calls.       *)
(***************************************************************************)
InitFiles ==
    /\ doc \in FileDocs
    /\ hand \in FileTexts
    /\ files = <<>>
    /\ dirs = {}
    /\ saved = {}
    /\ last = NoCall
    /\ handles = {}
    /\ written = <<>>
    /\ registry = BaseClasses

\* the caller builds another document
NewDocument(d) ==
    /\ d # doc
    /\ doc' = d
    /\ last' = Called("new", last.path)
    /\ UNCHANGED <<hand, files, dirs, saved, handles, written, registry>>

NextFiles ==
    \/ \E p \in FilePaths, fail \in FailSets(doc) : Save(p, fail)
    \/ \E p \in FilePaths, ignore_missing \in BOOLEAN : Load(p, ignore_missing)
    \/ \E p \in FilePaths : EditFile(p)
    \/ \E d \in FileDocs : NewDocument(d)

SpecFiles == InitFiles /\ [][NextFiles]_vars

(***************************************************************************)
(* Properties.                                                             *)
(***************************************************************************)
\* a value with the widths of its numeric scalars dropped
RECURSIVE Norm(_)
Norm(v) ==
    CASE v.k \in {"int", "float"} -> [v EXCEPT !.w = "py"]
      [] v.k = "seq" -> VList([i \in 1..Len(v.v) |-> Norm(v.v[i])])
      [] v.k = "map" -> VMap([i \in 1..Len(v.v) |-> <<Norm(v.v[i][1]), Norm(v.v[i][2])>>])
      [] v.k = "fset" -> VFSet({Norm(x) : x \in v.v})
      [] OTHER -> v

\* the strings of a value
RECURSIVE StringsOf(_)
StringsOf(v) ==
    CASE v.k = "str" -> {v.v}
      [] v.k = "seq" -> UNION {StringsOf(v.v[i]) : i \in 1..Len(v.v)}
      [] v.k = "map" ->
            UNION {StringsOf(v.v[i][1]) \cup StringsOf(v.v[i][2]) : i \in 1..Len(v.v)}
      [] v.k = "fset" -> UNION {StringsOf(x) : x \in v.v}
      [] OTHER -> {}

\* the arrays of a value, in the order of the traversal
RECURSIVE ArraysOf(_), ArraysIn(_, _)
ArraysIn(items, i) ==
    IF i > Len(items) THEN <<>> ELSE ArraysOf(items[i]) \o ArraysIn(items, i + 1)
ArraysOf(v) ==
    CASE v.k = "arr" -> <<v>>
      [] v.k = "seq" -> ArraysIn(v.v, 1)
      [] v.k = "map" -> ArraysIn([i \in 1..Len(v.v) |-> v.v[i][2]], 1)
      [] OTHER -> <<>>

\* the array nodes of a representation, in the order of the traversal
RECURSIVE NodeArrays(_), NodeArraysIn(_, _)
NodeArraysIn(nodes, i) ==
    IF i > Len(nodes) THEN <<>> ELSE NodeArrays(nodes[i]) \o NodeArraysIn(nodes, i + 1)
NodeArrays(n) ==
    CASE n.kind = "scalar" -> IF n.tag \in {"!ndarray", "!extndarray"} THEN <<n>> ELSE <<>>
      [] n.kind = "seq" -> NodeArraysIn(n.items, 1)
      [] n.kind = "map" -> NodeArraysIn([i \in 1..Len(n.pairs) |-> n.pairs[i][2]], 1)
      [] OTHER -> <<>>

\* the last call read back what the call before it had dumped
ReadBack ==
    \/ last.op = "load" /\ last.fresh
    \/ last.op = "loadstream" /\ last.fromDump

\* the last call completed a dump
Dumped == last.op \in {"save", "dump"} /\ last.dumped

\* array i of the document could not be externalized in the last dump
NotExternal(i) == last.stream # "file" \/ i \in last.fail

\* the arrays before array i that the last dump externalized
ExternalBefore(i) == Cardinality({j \in 1..(i - 1) : ~NotExternal(j)})

SixDigits(n) ==
    <<DigitTok((n \div 100000) % 10), DigitTok((n \div 10000) % 10),
      DigitTok((n \div 1000) % 10), DigitTok((n \div 100) % 10),
      DigitTok((n \div 10) % 10), DigitTok(n % 10)>>

\* <dir>/<base>-<n as 6 digits>.npz for the file <dir>/<base>.<ext>
Sibling(p, n) ==
    Path(p.dir, SubSeq(p.name, 1, Len(p.name) - 2) \o <<"-">> \o SixDigits(n)
                    \o <<".", "npz">>)

\* a string that begins with 'array(' and is an expression
LegacyExpression(text) == StartsWithArray(text) /\ ParseExpr(text.t).ok

\* C1 as stated, for the loads that return and call nothing but the
\* allow-listed callables: what is read back from a dump equals the
\* document dumped, numeric widths aside, whatever strings the document
\* holds, strings that begin with 'array(' included.
C1_RoundTripAllStrings ==
    ReadBack /\ last.err = "" /\ last.exec \subseteq {"array"} \cup DTypes
        => last.val = Norm(doc)

\* C1, amended: what is read back from a dump (to a file through save, or
\* to a stream) equals the document dumped in structure, key order and
\* values, numeric widths aside, when no string of the document begins with
\* 'array(' and is a well-formed expression.
C1_RoundTrip ==
    ReadBack /\ (\A t \in StringsOf(doc) : ~LegacyExpression(t))
        => last.err = "" /\ last.val = Norm(doc)

C1_Witness ==
    /\ last.op = "load" /\ last.fresh /\ doc = NestedDoc
    /\ last.err = "" /\ last.val = Norm(doc) /\ last.val # doc

\* C2: in a dump to the file <dir>/<base>.<ext> the n-th array externalized
\* (n from 0 in every call) is in the file <dir>/<base>-<n in 6 digits>.npz,
\* its node is an !extndarray node holding that name, no two arrays of the
\* call share a name, and loading the saved document restores the arrays.
C2_ExternalNaming ==
    /\ last.op = "save" /\ last.err = "" =>
          LET arrs == ArraysOf(doc)
              nodes == NodeArrays(last.node)
          IN  /\ Len(nodes) = Len(arrs)
              /\ \A i \in 1..Len(arrs) : ~NotExternal(i) =>
                    /\ nodes[i] = Scalar("!extndarray",
                                         PathText(Sibling(last.path, ExternalBefore(i))))
                    /\ Sibling(last.path, ExternalBefore(i)) \in DOMAIN files
                    /\ files[Sibling(last.path, ExternalBefore(i))] = Npz(arrs[i])
              /\ \A i, j \in 1..Len(arrs) :
                    i # j /\ ~NotExternal(i) /\ ~NotExternal(j) => nodes[i] # nodes[j]
    /\ last.op = "load" /\ last.fresh /\ ArraysOf(doc) # <<>> =>
          /\ last.err = ""
          /\ ArraysOf(last.val) = ArraysOf(doc)

C2_Witness ==
    /\ last.op = "save" /\ last.again /\ last.err = "" /\ last.fail = {}
    /\ doc = ArrDoc(2) /\ last.ctr = 2
    /\ Sibling(last.path, 1) \in DOMAIN files

\* C3: an array that cannot be externalized (the stream has no path, or the
\* external file cannot be written) does not fail the dump: it is embedded
\* as an !ndarray node holding the archive, the counter is not advanced for
\* it, the other arrays are externalized as if it were not there, and
\* loading the text restores the arrays.
C3_InlineFallback ==
    /\ Dumped =>
          LET arrs == ArraysOf(doc)
              nodes == NodeArrays(last.node)
          IN  /\ last.err = ""
              /\ Len(nodes) = Len(arrs)
              /\ \A i \in 1..Len(arrs) :
                    IF NotExternal(i)
                    THEN nodes[i] = Scalar("!ndarray", B64(Npz(arrs[i])))
                    ELSE nodes[i].text = PathText(Sibling(last.path, ExternalBefore(i)))
              /\ last.ctr = ExternalBefore(Len(arrs) + 1)
    /\ ReadBack /\ ArraysOf(doc) # <<>> =>
          /\ last.err = ""
          /\ ArraysOf(last.val) = ArraysOf(doc)

C3_Witness ==
    /\ last.op = "save" /\ last.dumped /\ last.err = "" /\ last.fail = {1}
    /\ doc = ArrDoc(2) /\ last.ctr = 1
    /\ NodeArrays(last.node)[1].tag = "!ndarray"
    /\ NodeArrays(last.node)[2].tag = "!extndarray"

\* C4: load of a path where no file is: an empty document when
\* ignore_missing is set, a FileNotFoundError naming the path when it is
\* not, and the file system as it was.
C4_LoadMissing ==
    last.op = "load" /\ ~last.existed =>
        /\ last.ignore => last.err = "" /\ last.val = VMap(<<>>)
        /\ ~last.ignore => last.err = "FileNotFoundError" /\ last.msg = <<last.path>>
        /\ last.fsSame
        /\ last.path \notin DOMAIN files

C4_Witness ==
    /\ last.op = "load" /\ ~last.existed /\ ~last.ignore
    /\ last.err = "FileNotFoundError" /\ last.path = P2

\* the documents of one string that begins with 'array('
LegacyDocs == {StrDoc(t) : t \in LegacyStrings}

\* the last call loaded the hand-written text
ReadHand ==
    \/ last.op = "load" /\ last.existed /\ ~last.fromSave
    \/ last.op = "loadstream" /\ ~last.fromDump

\* C5: a string that begins with 'array(' and whose legacy evaluation fails,
\* in whatever way, does not fail the load and is loaded as the string it is.
C5_SilentFallback ==
    ReadBack /\ doc \in {StrDoc(LegacySyntax), StrDoc(LegacyName), StrDoc(LegacyArgs)}
        => last.err = "" /\ last.val = doc

\* C6: loading a string that begins with 'array(' calls nothing but the
\* callables of the allow-list; stated for load, which reads with the safe
\* loader.
C6_AllowListOnly ==
    last.op = "load" /\ last.fresh /\ doc \in LegacyDocs
        => last.exec \subseteq {"array"} \cup DTypes

\* C7: both entry points load in safe mode: a text with a node whose tag is
\* neither built in nor registered fails with a constructor error, nothing
\* is called and no document is returned.
C7_SafeModeEverywhere ==
    ReadHand /\ hand \in {PythonText, UnknownTagText}
        => last.err = "ConstructorError" /\ last.exec = {} /\ last.val = VNull

C9_SaveMakesDirectories ==
    last.op = "save" =>
        /\ last.err = ""
        /\ last.path \in DOMAIN files
        /\ Prefixes(last.path.dir) \subseteq dirs
        /\ last.dirExisted \/ last.path.dir = <<>> => last.created = {}

\* C10: a stream without a document (an empty text, an empty file given to
\* load) loads as an empty ordered mapping: no error, not null.
C10_EmptyInput ==
    /\ last.op = "loadstream" /\ ~last.fromDump /\ hand = EmptyText
          => last.err = "" /\ last.val = VMap(<<>>)
    /\ last.op = "load" /\ last.existed /\ files[last.path] = EmptyText
          => last.err = "" /\ last.val = VMap(<<>>)

C10_Witness ==
    /\ last.op = "load" /\ last.existed /\ files[last.path] = EmptyText
    /\ last.err = "" /\ last.val = VMap(<<>>) /\ last.val # VNull


\* C11: after every call, whether it returned or raised (a decode failure
\* in load, an encode failure in save), no handle of a document file is
\* open.
C11_HandlesReleased == handles = {}

\* a save whose dump raised after the document file was opened for writing
C11_Witness ==
    /\ last.op = "save" /\ last.dumped /\ last.err = "RepresenterError"
    /\ last.path \in DOMAIN files
    /\ handles = {}


\* the last call loaded a document file that save wrote and nothing has
\* written since
LoadedSaved == last.op = "load" /\ last.path \in saved

\* C12: when two different document files have been saved, of one directory
\* and different in their extension alone included, loading either of them
\* still returns the document it was saved with: no external array file
\* of one document is overwritten by the save of the other.
C12_NoOverwriteAcrossDocuments ==
    LoadedSaved /\ (\E p2 \in saved : p2 # last.path)
        => last.err = "" /\ last.val = Norm(written[last.path])


\* the bindings in order are all in the table
BoundIn(table, bindings) ==
    \A i \in 1..Len(bindings) :
        bindings[i][1] \in DOMAIN table /\ table[bindings[i][1]] = bindings[i][2]

\* the !extndarray nodes of the last dump
ExternalNodes ==
    LET nodes == NodeArrays(last.node) IN
    {i \in 1..Len(nodes) : nodes[i].tag = "!extndarray"}

\* C13: the bindings of a call are made on the class of that call: after
\* every call the tables of the loader and dumper classes of the library
\* are as they were after import, the class of a load call holds the
\* registered constructors and the class of a dump call the registered
\* representers, and the counter of a dump call counts the arrays that call
\* externalized and no others.
C13_BindingsPerCall ==
    /\ registry = BaseClasses
    /\ last.op \in {"load", "loadstream"} /\ DOMAIN last.bound # {}
          => BoundIn(last.bound, Constructors)
    /\ Dumped => /\ BoundIn(last.bound, Representers)
                 /\ last.ctr = Cardinality(ExternalNodes)

\* a save that externalized arrays after an earlier save had done so
C13_Witness ==
    /\ last.op = "save" /\ last.again /\ last.err = ""
    /\ last.ctr > 0
    /\ BoundIn(last.bound, Representers)
    /\ registry = BaseClasses

====
